---- MODULE Spec2Model ----
(***************************************************************************)
(* A model of the image database REST server (src/app.js): the images,     *)
(* tags and users collections of the document store, the files on disk,    *)
(* the clock that decides token expiry, and the requests in flight.  Each  *)
(* route is one action for the arrival of a request (the auth gate and the *)
(* synchronous part of the handler) and one action per callback of the     *)
(* store, the file system, bcrypt or the token library.                    *)
(*                                                                         *)
(* Encodings.  A JavaScript string that the code inspects character by     *)
(* character (a title, a search pattern, a pageSize parameter) is a        *)
(* sequence of one-character strings.  A document is a record that has     *)
(* exactly the fields the JSON body had.  A document identifier is a pair  *)
(* <<type, text>>: <<"str", s>> a string, <<"num", s>> a number written s, *)
(* <<"oid", k>> the k-th ObjectId the driver generated, <<"null", "">>     *)
(* null.  An optional value is a sequence of length 0 or 1.                *)
(***************************************************************************)
EXTENDS Integers, Sequences, FiniteSets, TLC

VARIABLES
    images,   \* the images collection, in the store's natural order
    tags,     \* the tags collection, in the store's natural order
    users,    \* the users collection
    files,    \* the file system: the set of [path, data] of regular files
    now,      \* the clock, in days
    nextOid,  \* how many ObjectIds the driver has generated
    conn      \* per client: the request in flight and its response

vars == <<images, tags, users, files, now, nextOid, conn>>

-----------------------------------------------------------------------------
(* Bounds of the model *)

MaxDocs == 2      \* documents in the images collection
MaxOid == 1       \* ObjectIds generated
MaxTagDocs == 1   \* documents in the tags collection
MaxNow == 8       \* days the clock runs

Clients == {"c1", "c2"}

-----------------------------------------------------------------------------
(* JavaScript values *)

Min(a, b) == IF a < b THEN a ELSE b

Abs(a) == IF a < 0 THEN -a ELSE a

Digits == {"0", "1", "2", "3", "4", "5", "6", "7", "8", "9"}

DigitValue(c) ==
    CASE c = "0" -> 0 [] c = "1" -> 1 [] c = "2" -> 2 [] c = "3" -> 3
      [] c = "4" -> 4 [] c = "5" -> 5 [] c = "6" -> 6 [] c = "7" -> 7
      [] c = "8" -> 8 [] c = "9" -> 9

\* A JavaScript number: a finite integer, NaN, or an infinity.
Fin(n) == [k |-> "fin", v |-> n]
NaN == [k |-> "nan", v |-> 0]
Infinity == [k |-> "inf", v |-> 1]
NegInfinity == [k |-> "inf", v |-> -1]

\* The value of the longest prefix of s[i..] that consists of digits, read
\* after the digits acc has accumulated.
RECURSIVE DigitsPrefix(_, _, _)
DigitsPrefix(s, i, acc) ==
    IF i > Len(s) \/ s[i] \notin Digits THEN acc
    ELSE DigitsPrefix(s, i + 1, 10 * acc + DigitValue(s[i]))

\* parseInt(raw): raw is an optional string.  An optional sign, then the
\* longest run of digits; NaN when there is no digit there.
ParseInt(raw) ==
    IF raw = <<>> THEN NaN
    ELSE LET s == raw[1]
             neg == Len(s) >= 1 /\ s[1] = "-"
             first == IF Len(s) >= 1 /\ s[1] \in {"-", "+"} THEN 2 ELSE 1
         IN  IF first > Len(s) \/ s[first] \notin Digits THEN NaN
             ELSE Fin((IF neg THEN -1 ELSE 1) * DigitsPrefix(s, first, 0))

\* ToNumber(s) of a string, as the division operator applies it: the whole
\* string must be a decimal integer literal (the empty string is 0).
ToNumber(s) ==
    LET neg == Len(s) >= 1 /\ s[1] = "-"
        first == IF Len(s) >= 1 /\ s[1] \in {"-", "+"} THEN 2 ELSE 1
    IN  IF Len(s) = 0 THEN Fin(0)
        ELSE IF first > Len(s) \/ \E i \in first..Len(s) : s[i] \notin Digits
        THEN NaN
        ELSE Fin((IF neg THEN -1 ELSE 1) * DigitsPrefix(s, first, 0))

\* x || d for a number x: NaN and 0 are falsy.
NumberOr(x, d) == IF x.k = "nan" \/ (x.k = "fin" /\ x.v = 0) THEN d ELSE x

\* Math.ceil(a / b) for a finite integer a >= 0 and a number b.
CeilOfQuotient(a, b) ==
    CASE b.k = "nan" -> NaN
      [] b.k = "inf" -> Fin(0)
      [] b.k = "fin" /\ b.v = 0 -> IF a = 0 THEN NaN ELSE Infinity
      [] b.k = "fin" /\ b.v > 0 -> Fin((a + b.v - 1) \div b.v)
      [] b.k = "fin" /\ b.v < 0 -> Fin(-(a \div (-b.v)))

\* JSON.stringify of a number, as res.json sends it: NaN and the infinities
\* are written null.
JsonNumber(x) == IF x.k = "fin" THEN [json |-> "number", v |-> x.v]
                 ELSE [json |-> "null", v |-> 0]

-----------------------------------------------------------------------------
(* Regular expressions, as the store evaluates {$regex: p, $options: "i"} *)

Lower(c) == CASE c = "A" -> "a" [] c = "B" -> "b" [] OTHER -> c

\* Does pattern character pc match subject character c, ignoring case?
CharMatches(pc, c) == pc = "." \/ Lower(pc) = Lower(c)

\* A pattern the regex compiler rejects: a quantifier with nothing to repeat.
RegexInvalid(p) ==
    \E i \in 1..Len(p) : p[i] = "*" /\ (i = 1 \/ p[i - 1] = "*")

\* Does p[i..] match a prefix of s[j..]?
RECURSIVE MatchHere(_, _, _, _)
MatchHere(p, i, s, j) ==
    IF i > Len(p) THEN TRUE
    ELSE IF i + 1 <= Len(p) /\ p[i + 1] = "*"
    THEN \E k \in j..(Len(s) + 1) :
            /\ \A m \in j..(k - 1) : CharMatches(p[i], s[m])
            /\ MatchHere(p, i + 2, s, k)
    ELSE /\ j <= Len(s)
         /\ CharMatches(p[i], s[j])
         /\ MatchHere(p, i + 1, s, j + 1)

\* An unanchored search of p in s.
RegexSearch(p, s) == \E j \in 1..(Len(s) + 1) : MatchHere(p, 1, s, j)

DotStar == <<".", "*">>

-----------------------------------------------------------------------------
(* The document store *)

NullId == <<"null", "">>

\* The fields of record d other than those in S.
Without(d, S) == [k \in (DOMAIN d) \ S |-> d[k]]

\* A query filter of plain field: value pairs matches a document that has
\* every field of the filter with an equal value.
MatchesFilter(d, filter) ==
    \A k \in DOMAIN filter : k \in DOMAIN d /\ d[k] = filter[k]

\* The position of the first document of coll that matches, or 0.
FirstMatch(coll, filter) ==
    IF \E i \in 1..Len(coll) : MatchesFilter(coll[i], filter)
    THEN CHOOSE i \in 1..Len(coll) :
            /\ MatchesFilter(coll[i], filter)
            /\ \A j \in 1..(i - 1) : ~MatchesFilter(coll[j], filter)
    ELSE 0

\* collection.findOne(filter): the optional first match.
FindOne(coll, filter) ==
    LET i == FirstMatch(coll, filter)
    IN  IF i = 0 THEN <<>> ELSE <<coll[i]>>

RemoveAt(coll, i) == SubSeq(coll, 1, i - 1) \o SubSeq(coll, i + 1, Len(coll))

\* insertOne without the unique index on _id.
InsertOneUnchecked(coll, doc, oid) ==
    LET generated == "_id" \notin DOMAIN doc
        stored == IF generated THEN ("_id" :> <<"oid", oid + 1>>) @@ doc ELSE doc
    IN  [err |-> "", coll |-> Append(coll, stored), insertedId |-> stored._id,
         oid |-> IF generated THEN oid + 1 ELSE oid]

\* collection.insertOne(doc): a document without _id receives the next
\* ObjectId; a duplicate _id is the store's error 11000.
InsertOne(coll, doc, oid) ==
    LET generated == "_id" \notin DOMAIN doc
        stored == IF generated THEN ("_id" :> <<"oid", oid + 1>>) @@ doc ELSE doc
    IN  IF \E i \in 1..Len(coll) : coll[i]._id = stored._id
        THEN [err |-> "E11000", coll |-> coll, insertedId |-> stored._id,
              oid |-> IF generated THEN oid + 1 ELSE oid]
        ELSE [err |-> "", coll |-> Append(coll, stored),
              insertedId |-> stored._id,
              oid |-> IF generated THEN oid + 1 ELSE oid]

\* collection.deleteOne(filter): removes the first match.
DeleteOne(coll, filter) ==
    LET i == FirstMatch(coll, filter)
    IN  IF i = 0 THEN [err |-> "", coll |-> coll, deletedCount |-> 0]
        ELSE [err |-> "", coll |-> RemoveAt(coll, i), deletedCount |-> 1]

AtomicOperators == {"$set"}

HasAtomicOperators(update) == \E k \in DOMAIN update : k \in AtomicOperators

\* collection.updateOne(filter, update): the driver refuses an update
\* document without atomic operators; $set assigns the given fields of the
\* first match.
UpdateOne(coll, filter, update) ==
    LET i == FirstMatch(coll, filter)
    IN  IF ~HasAtomicOperators(update)
        THEN [err |-> "the update operation document must contain atomic operators",
              coll |-> coll]
        ELSE IF (DOMAIN update) \ AtomicOperators # {}
        THEN [err |-> "Unknown modifier", coll |-> coll]
        ELSE IF i = 0 THEN [err |-> "", coll |-> coll]
        ELSE [err |-> "",
              coll |-> [coll EXCEPT ![i] =
                          update["$set"] @@ Without(coll[i], DOMAIN update["$set"])]]

-----------------------------------------------------------------------------
(* The filter of the list and pages endpoints *)

DefaultPageSize == 15
DefaultPageNum == 1

\* x || d for an optional string x: absent and "" are falsy.
StringOr(x, d) == IF x = <<>> \/ x[1] = <<>> THEN d ELSE x[1]

\* let tags = req.query.tags || []; tags = Array.isArray(tags) ? tags : [tags]
\* The parameter is absent, one string, or an array of strings.
TagsOfQuery(q) ==
    IF q.tags = <<>> THEN <<>>
    ELSE IF q.tags[1].isArray THEN q.tags[1].v
    ELSE IF q.tags[1].v[1] = <<>> THEN <<>>
    ELSE q.tags[1].v

\* tags: tags.length ? { $all: tags } : { $in: [/.*/] }
TagsCondition(tagList) ==
    IF Len(tagList) # 0 THEN [op |-> "$all", v |-> tagList]
    ELSE [op |-> "$in", v |-> <<DotStar>>]

\* The store's evaluation of the condition on the tags field of d: $all
\* wants every listed value among the elements of the array, $in of regular
\* expressions wants an element that one of them matches.
MatchesTagsCondition(d, cond) ==
    /\ "tags" \in DOMAIN d
    /\ IF cond.op = "$all"
       THEN \A i \in 1..Len(cond.v) : \E j \in 1..Len(d.tags) : d.tags[j] = cond.v[i]
       ELSE \E j \in 1..Len(d.tags) : \E i \in 1..Len(cond.v) :
                RegexSearch(cond.v[i], d.tags[j])

\* { field: { $regex: p, $options: "i" } }
MatchesRegexField(d, field, p) == field \in DOMAIN d /\ RegexSearch(p, d[field])

\* The filter both endpoints build (lines 213-217 and 283-299).
MatchesImageFilter(d, q) ==
    LET search == StringOr(q.search, DotStar)
    IN  /\ MatchesTagsCondition(d, TagsCondition(TagsOfQuery(q)))
        /\ \/ MatchesRegexField(d, "title", search)
           \/ MatchesRegexField(d, "description", search)

FilterInvalid(q) == RegexInvalid(StringOr(q.search, DotStar))

\* The cursor of find(filter, {skip, limit}): walks the collection from
\* position i, skipping the first toSkip matches and collecting up to
\* toTake further ones.
RECURSIVE Cursor(_, _, _, _, _)
Cursor(coll, q, i, toSkip, toTake) ==
    IF i > Len(coll) \/ toTake = 0 THEN <<>>
    ELSE IF ~MatchesImageFilter(coll[i], q) THEN Cursor(coll, q, i + 1, toSkip, toTake)
    ELSE IF toSkip > 0 THEN Cursor(coll, q, i + 1, toSkip - 1, toTake)
    ELSE <<coll[i]>> \o Cursor(coll, q, i + 1, 0, toTake - 1)

\* collection.find(filter, {skip, limit}).toArray(): a negative skip is an
\* error of the store, a negative limit asks for that many documents in one
\* batch.
FindToArray(coll, q, skip, limit) ==
    IF FilterInvalid(q) THEN [err |-> "Regular expression is invalid", docs |-> <<>>]
    ELSE IF skip < 0 THEN [err |-> "Skip value must be non-negative", docs |-> <<>>]
    ELSE [err |-> "", docs |-> Cursor(coll, q, 1, skip, Abs(limit))]

\* collection.countDocuments(filter)
CountDocuments(coll, q) ==
    IF FilterInvalid(q) THEN [err |-> "Regular expression is invalid", n |-> 0]
    ELSE [err |-> "",
          n |-> Cardinality({i \in 1..Len(coll) : MatchesImageFilter(coll[i], q)})]

\* let pageSize = parseInt(req.query.pageSize) || 15 (line 274)
ListPageSize(q) == NumberOr(ParseInt(q.pageSize), Fin(DefaultPageSize)).v

\* let pageNum = parseInt(req.query.pageNum) || 1 (line 275)
ListPageNum(q) == NumberOr(ParseInt(q.pageNum), Fin(DefaultPageNum)).v

\* let skipAmount = pageSize * pageNum
ListSkipAmountOffByOne(q) == ListPageSize(q) * ListPageNum(q)

\* let skipAmount = pageSize * (pageNum - 1) (line 276)
ListSkipAmount(q) == ListPageSize(q) * (ListPageNum(q) - 1)

\* let pageSize = req.query.pageSize || 15 (line 229): the raw string, which
\* the division converts to a number.
PagesPageSize(q) ==
    IF q.pageSize = <<>> \/ q.pageSize[1] = <<>> THEN Fin(DefaultPageSize)
    ELSE ToNumber(q.pageSize[1])

\* let pages = Math.ceil(result / pageSize) (line 230)
PagesValue(count, q) == CeilOfQuotient(count, PagesPageSize(q))

-----------------------------------------------------------------------------
(* Tokens and passwords *)

sessionSecret == "super secret"

TokenLifeDays == 7

\* jwt.sign(payload, secret, { expiresIn: "7 days" }) at time t
JwtSign(payload, secret, t) ==
    [wellFormed |-> TRUE, payload |-> payload, iat |-> t,
     exp |-> t + TokenLifeDays, key |-> secret]

\* jwt.verify(token, secret) at time t: throws on a malformed token, on a
\* signature made with another key, and on an expired token.
JwtVerify(token, secret, t) ==
    IF ~token.wellFormed THEN [threw |-> "JsonWebTokenError: jwt malformed"]
    ELSE IF token.key # secret THEN [threw |-> "JsonWebTokenError: invalid signature"]
    ELSE IF t >= token.exp THEN [threw |-> "TokenExpiredError: jwt expired"]
    ELSE [threw |-> "", decoded |-> token.payload]

\* bcrypt: the hash of a password, and compare(password, hash), which fails
\* when the password is missing.
BcryptHash(pw) == <<"$2b$", pw>>

BcryptCompare(password, hash) ==
    IF password = <<>> THEN [err |-> "data and hash arguments required", match |-> FALSE]
    ELSE [err |-> "", match |-> (hash = BcryptHash(password[1]))]

-----------------------------------------------------------------------------
(* Requests and responses *)

NoBody == [none |-> TRUE]
NoQuery == [none |-> TRUE]
NoData == [none |-> TRUE]

Idle == [phase |-> "idle", route |-> "", tok |-> <<>>, body |-> NoBody,
         query |-> NoQuery, upload |-> <<>>, user |-> <<>>, tmp |-> <<>>,
         res |-> <<>>]

\* A request as it arrives.
Request(route, tok, body, query, upload) ==
    [phase |-> "arrived", route |-> route, tok |-> tok, body |-> body,
     query |-> query, upload |-> upload, user |-> <<>>, tmp |-> <<>>, res |-> <<>>]

\* res.status(status).json({error: true, msg}) or .json({msg, ...data}) or
\* .json(data)
Json(status, msg, data) == [status |-> status, json |-> TRUE, msg |-> msg, data |-> data]

\* The response of the framework's default error handler to an exception a
\* handler throws: status 500 with an HTML page.
DefaultErrorPage == [status |-> 500, json |-> FALSE, msg |-> "", data |-> NoData]

InternalError(err) == Json(500, "Error: Internal Server Error - " \o err, NoData)

Done(r, response) == [r EXCEPT !.phase = "done", !.res = <<response>>]

Waiting(r, phase) == [r EXCEPT !.phase = phase]

\* A gate that decodes the token without verifying it.
AuthUnverified(r, t) ==
    IF r.tok = <<>>
    THEN Done(r, Json(401, "Error: Authentication Error", NoData))
    ELSE [r EXCEPT !.phase = "next",
                   !.user = IF "user" \in DOMAIN r.tok[1].payload
                            THEN <<r.tok[1].payload.user>> ELSE <<>>]

\* const auth = (req, res, next) => ... (lines 64-83): the request after the
\* gate: answered 401 or 500, or passed on with req.user set.
Auth(r, t) ==
    IF r.tok = <<>>
    THEN Done(r, Json(401, "Error: Authentication Error", NoData))
    ELSE LET v == JwtVerify(r.tok[1], sessionSecret, t)
         IN  IF v.threw # ""
             THEN Done(r, InternalError(v.threw))
             ELSE [r EXCEPT !.phase = "next",
                            !.user = IF "user" \in DOMAIN v.decoded
                                     THEN <<v.decoded.user>> ELSE <<>>]

StoreError == "MongoError"

-----------------------------------------------------------------------------
(* The requests the clients send *)

TagT == <<"t">>
TagU == <<"u">>

FileUrlA == "localhost/api/files/images/a.png"

\* The content of an image document: everything but its identifier.
ContentA == [title |-> <<"a">>, description |-> <<"b">>, tags |-> <<TagT>>,
             filePath |-> FileUrlA]
ContentB == [title |-> <<"A", "b">>, tags |-> <<>>]

ImageContents == {ContentA, ContentB}

WithId(content, id) == ("_id" :> id) @@ content

IdOne == <<"str", "i1">>
IdTwo == <<"str", "i2">>
IdEmpty == <<"str", "">>

\* Bodies of POST /api/image/db: with a string identifier, with the empty
\* string as identifier, and without identifier.
ImageBodies ==
    {WithId(ContentA, IdOne), WithId(ContentB, IdOne), WithId(ContentB, IdTwo),
     WithId(ContentA, IdEmpty), ContentA}

\* A body of atomic operators, as the driver's updateOne wants it.
SetTitleBody == ("$set" :> [title |-> <<"b">>])

PutBodies ==
    {WithId(ContentA, IdOne), WithId(ContentB, IdOne), WithId(ContentA, IdTwo),
     SetTitleBody}

EmptyBody == [k \in {} |-> k]

\* Bodies of DELETE /api/image/db: the identifier alone, as documented; the
\* identifier with another field; no identifier.
DeleteBodies ==
    {[_id |-> IdOne], [_id |-> IdTwo], [_id |-> IdOne, title |-> <<"a">>],
     [title |-> <<"A", "b">>], EmptyBody}

\* The query of GET /api/image/db and /api/image/db/pages.
ImageQuery(id, pageSize, pageNum, search, tagsParam) ==
    [id |-> id, pageSize |-> pageSize, pageNum |-> pageNum, search |-> search,
     tags |-> tagsParam]

IdQueries ==
    {ImageQuery(<<id>>, <<>>, <<>>, <<>>, <<>>) : id \in {"i1", "i2", ""}}

\* The one user of the service and the identity its tokens carry.
SamUser == [email |-> "sam@example.com", name |-> "Sam",
            passwordHash |-> BcryptHash("hunter2")]

Identity(u) == [email |-> u.email, name |-> u.name]

\* A token the server issued for the user at time t.
IssuedToken(t) == JwtSign([user |-> Identity(SamUser)], sessionSecret, t)

StoreErrs == BOOLEAN

-----------------------------------------------------------------------------
(* Image documents: POST, PUT, DELETE and GET /api/image/db *)

\* The client reads the response; its connection is free for a new request.
Collect(c) ==
    /\ conn[c].phase = "done"
    /\ conn' = [conn EXCEPT ![c] = Idle]
    /\ UNCHANGED <<images, tags, users, files, now, nextOid>>

\* app.post("/api/image/db", auth, ...): the gate, then images.insertOne
PostImageDb(c, tok, body) ==
    /\ conn[c].phase = "idle"
    /\ LET r == Auth(Request("POST /api/image/db", tok, body, NoQuery, <<>>), now)
       IN  conn' = [conn EXCEPT ![c] =
                      IF r.phase = "next" THEN Waiting(r, "insertOne") ELSE r]
    /\ UNCHANGED <<images, tags, users, files, now, nextOid>>

\* The callback of images.insertOne (lines 346-367)
PostImageDbCallback(c, storeErr) ==
    /\ conn[c].phase = "insertOne"
    /\ conn[c].route = "POST /api/image/db"
    /\ LET r == conn[c]
           ins == InsertOne(images, r.body, nextOid)
       IN  IF storeErr
           THEN /\ conn' = [conn EXCEPT ![c] = Done(r, InternalError(StoreError))]
                /\ UNCHANGED <<images, nextOid>>
           ELSE /\ ins.err = "" => Len(images) < MaxDocs
                /\ ins.oid <= MaxOid
                /\ images' = ins.coll
                /\ nextOid' = ins.oid
                /\ conn' = [conn EXCEPT ![c] =
                     IF ins.err = "E11000"
                     THEN Done(r, Json(409, "Error: Record Already Exists at id=",
                                       [id |-> ins.insertedId]))
                     ELSE Done(r, Json(200, "Successfully added image _id=",
                                       [insertedId |-> ins.insertedId]))]
    /\ UNCHANGED <<tags, users, files, now>>

\* { _id: req.body["_id"] }: an undefined value is sent to the store as null
PutFilter(body) == [_id |-> IF "_id" \in DOMAIN body THEN body._id ELSE NullId]

\* app.put("/api/image/db", auth, ...): the gate, then images.updateOne.  A
\* driver that validates the update before it starts the operation throws
\* inside the handler; one that reports through the callback does not.
PutImageDb(c, tok, body, driverThrows) ==
    /\ conn[c].phase = "idle"
    /\ LET r == Auth(Request("PUT /api/image/db", tok, body, NoQuery, <<>>), now)
       IN  conn' = [conn EXCEPT ![c] =
                      IF r.phase # "next" THEN r
                      ELSE IF driverThrows /\ ~HasAtomicOperators(body)
                      THEN Done(r, DefaultErrorPage)
                      ELSE Waiting(r, "updateOne")]
    /\ UNCHANGED <<images, tags, users, files, now, nextOid>>

\* The callback of images.updateOne (lines 391-407)
PutImageDbCallback(c, storeErr) ==
    /\ conn[c].phase = "updateOne"
    /\ LET r == conn[c]
           upd == UpdateOne(images, PutFilter(r.body), r.body)
       IN  IF storeErr \/ upd.err # ""
           THEN /\ conn' = [conn EXCEPT ![c] =
                     Done(r, InternalError(IF storeErr THEN StoreError ELSE upd.err))]
                /\ UNCHANGED images
           ELSE /\ images' = upd.coll
                /\ conn' = [conn EXCEPT ![c] =
                     Done(r, Json(200, "Successfully updated image _id=",
                                  [upsertedId |-> NullId]))]
    /\ UNCHANGED <<tags, users, files, now, nextOid>>

\* app.delete("/api/image/db", auth, ...): the gate, then images.deleteOne
DeleteImageDb(c, tok, body) ==
    /\ conn[c].phase = "idle"
    /\ LET r == Auth(Request("DELETE /api/image/db", tok, body, NoQuery, <<>>), now)
       IN  conn' = [conn EXCEPT ![c] =
                      IF r.phase = "next" THEN Waiting(r, "deleteOne") ELSE r]
    /\ UNCHANGED <<images, tags, users, files, now, nextOid>>

\* A callback that, with the document, removes the files from the disk.
DeleteImageDbCallbackCascading(c, storeErr) ==
    /\ conn[c].phase = "deleteOne"
    /\ LET r == conn[c]
           del == DeleteOne(images, r.body)
       IN  IF storeErr
           THEN /\ conn' = [conn EXCEPT ![c] = Done(r, InternalError(StoreError))]
                /\ UNCHANGED <<images, files>>
           ELSE /\ images' = del.coll
                /\ files' = IF del.deletedCount = 0 THEN files ELSE {}
                /\ conn' = [conn EXCEPT ![c] =
                     IF del.deletedCount = 0
                     THEN Done(r, Json(404, "Error: Image not found", NoData))
                     ELSE Done(r, Json(200, "Successfully deleted image _id=", NoData))]
    /\ UNCHANGED <<tags, users, now, nextOid>>

\* The callback of images.deleteOne(req.body, ...) (lines 423-442)
DeleteImageDbCallback(c, storeErr) ==
    /\ conn[c].phase = "deleteOne"
    /\ LET r == conn[c]
           del == DeleteOne(images, r.body)
       IN  IF storeErr
           THEN /\ conn' = [conn EXCEPT ![c] = Done(r, InternalError(StoreError))]
                /\ UNCHANGED images
           ELSE /\ images' = del.coll
                /\ conn' = [conn EXCEPT ![c] =
                     IF del.deletedCount = 0
                     THEN Done(r, Json(404, "Error: Image not found", NoData))
                     ELSE Done(r, Json(200, "Successfully deleted image _id=", NoData))]
    /\ UNCHANGED <<tags, users, files, now, nextOid>>

\* { _id: Number(req.query.id) }
IdFilterAsNumber(q) == [_id |-> <<"num", q.id[1]>>]

\* { _id: req.query.id }: a query parameter is a string
IdFilter(q) == [_id |-> <<"str", q.id[1]>>]

\* if (req.query.id): absent and "" are falsy
HasId(q) == q.id # <<>> /\ q.id[1] # ""

\* app.get("/api/image/db", ...): images.findOne for an id, images.find
\* otherwise
GetImageDb(c, q) ==
    /\ conn[c].phase = "idle"
    /\ LET r == Request("GET /api/image/db", <<>>, NoBody, q, <<>>)
       IN  conn' = [conn EXCEPT ![c] =
                      IF HasId(q) THEN Waiting(r, "findOne") ELSE Waiting(r, "find")]
    /\ UNCHANGED <<images, tags, users, files, now, nextOid>>

\* What the callback of images.findOne answers (lines 253-272)
FindOneResponse(coll, q, storeErr) ==
    LET result == FindOne(coll, IdFilter(q))
    IN  IF storeErr THEN InternalError(StoreError)
        ELSE IF result = <<>> THEN Json(404, "Error: Not Found", NoData)
        ELSE Json(200, "", [doc |-> result[1]])

GetImageDbFindOneCallback(c, storeErr) ==
    /\ conn[c].phase = "findOne"
    /\ conn[c].route = "GET /api/image/db"
    /\ conn' = [conn EXCEPT ![c] =
                  Done(conn[c], FindOneResponse(images, conn[c].query, storeErr))]
    /\ UNCHANGED <<images, tags, users, files, now, nextOid>>

\* What the list branch answers (lines 274-322)
FindResponse(coll, q, storeErr) ==
    LET found == FindToArray(coll, q, ListSkipAmount(q), ListPageSize(q))
    IN  IF storeErr THEN InternalError(StoreError)
        ELSE IF found.err # "" THEN InternalError(found.err)
        ELSE Json(200, "", [docs |-> found.docs])

GetImageDbFindCallback(c, storeErr) ==
    /\ conn[c].phase = "find"
    /\ conn[c].route = "GET /api/image/db"
    /\ conn' = [conn EXCEPT ![c] =
                  Done(conn[c], FindResponse(images, conn[c].query, storeErr))]
    /\ UNCHANGED <<images, tags, users, files, now, nextOid>>

-----------------------------------------------------------------------------
(* The service with its image documents: clients that insert, replace,     *)
(* delete and read documents concurrently, each with the user's token.     *)

NoFiles == {}

Init ==
    /\ images = <<>>
    /\ tags = <<>>
    /\ users = <<SamUser>>
    /\ files = NoFiles
    /\ now = 0
    /\ nextOid = 0
    /\ conn = [c \in Clients |-> Idle]

CrudTokens == {<<IssuedToken(0)>>}

Next ==
    \E c \in Clients :
        \/ Collect(c)
        \/ \E tok \in CrudTokens, body \in ImageBodies : PostImageDb(c, tok, body)
        \/ \E e \in StoreErrs : PostImageDbCallback(c, e)
        \/ \E tok \in CrudTokens, body \in PutBodies, th \in BOOLEAN :
              PutImageDb(c, tok, body, th)
        \/ \E e \in StoreErrs : PutImageDbCallback(c, e)
        \/ \E tok \in CrudTokens, body \in DeleteBodies : DeleteImageDb(c, tok, body)
        \/ \E e \in StoreErrs : DeleteImageDbCallback(c, e)
        \/ \E q \in IdQueries : GetImageDb(c, q)
        \/ \E e \in StoreErrs : GetImageDbFindOneCallback(c, e)
        \/ \E e \in StoreErrs : GetImageDbFindCallback(c, e)

Spec == Init /\ [][Next]_vars

-----------------------------------------------------------------------------
(* Two clients that each insert one document *)

NextInsertRace ==
    \E c \in Clients :
        \/ \E tok \in CrudTokens, body \in ImageBodies : PostImageDb(c, tok, body)
        \/ \E e \in StoreErrs : PostImageDbCallback(c, e)

SpecInsertRace == Init /\ [][NextInsertRace]_vars

-----------------------------------------------------------------------------
(* What a client observes *)

Answered(c) == conn[c].phase = "done"

Status(c) == conn[c].res[1].status

\* The client's request has just been answered by this step.
AnswersNow(c, route) ==
    /\ conn[c].phase # "done"
    /\ conn'[c].phase = "done"
    /\ conn'[c].route = route

\* The store reported a failure of its own to the handler.
StoreFailed(response) ==
    response.status = 500 /\ response.msg = InternalError(StoreError).msg

\* The text of an identifier in a query string.
IdText(id) ==
    IF id[1] = "oid" THEN (CASE id[2] = 1 -> "oid1" [] id[2] = 2 -> "oid2" [] OTHER -> "oidN")
    ELSE id[2]

\* The answer a GET /api/image/db?id=<text> receives from a store that holds
\* coll.
GetByIdResponse(coll, text) ==
    LET q == ImageQuery(<<text>>, <<>>, <<>>, <<>>, <<>>)
    IN  IF HasId(q) THEN FindOneResponse(coll, q, FALSE) ELSE FindResponse(coll, q, FALSE)

DocsWithId(coll, id) == {i \in 1..Len(coll) : coll[i]._id = id}

StringIds == {"i1", "i2", ""}

-----------------------------------------------------------------------------
(* C1 *)

InsertsOf(id) ==
    {c \in Clients :
        /\ Answered(c)
        /\ conn[c].route = "POST /api/image/db"
        /\ "_id" \in DOMAIN conn[c].body
        /\ conn[c].body._id = id
        /\ ~StoreFailed(conn[c].res[1])}

\* C1: of the inserts of one identifier into a collection that did not hold
\* it, exactly one is answered 200 and every other one 409 Conflict, in
\* every interleaving, and the collection then holds exactly one document
\* with that identifier, the body of the insert that was answered 200.
C1_OneInsertWins ==
    \A id \in {IdOne, IdTwo, IdEmpty} :
        InsertsOf(id) # {} =>
            \E w \in InsertsOf(id) :
                /\ Status(w) = 200
                /\ \A c \in InsertsOf(id) \ {w} : Status(c) = 409
                /\ Cardinality(DocsWithId(images, id)) = 1
                /\ \A i \in DocsWithId(images, id) : images[i] = conn[w].body

C1_Witness ==
    /\ InsertsOf(IdOne) = Clients
    /\ conn["c1"].body # conn["c2"].body
    /\ Status("c1") = 409
    /\ Status("c2") = 200
    /\ Len(images) = 1

-----------------------------------------------------------------------------
(* C2 *)

\* This step answers client c's insert with 200.
InsertSucceeds(c) ==
    /\ AnswersNow(c, "POST /api/image/db")
    /\ conn'[c].res[1].status = 200

\* This step answers a DELETE or a PUT on the images collection with 200.
DeleteOrPutSucceeds ==
    \E c \in Clients :
        /\ \/ AnswersNow(c, "DELETE /api/image/db")
           \/ AnswersNow(c, "PUT /api/image/db")
        /\ conn'[c].res[1].status = 200

StringId(body) == "_id" \in DOMAIN body /\ body._id[1] = "str"

NonEmptyStringId(body) == StringId(body) /\ body._id[2] # ""

-----------------------------------------------------------------------------
(* C3 *)

\* C3 as stated: a DELETE whose body carries an identifier, when the store
\* serves it, is answered 404 and changes nothing when no document has that
\* identifier, and is answered 200 and removes exactly the document with
\* that identifier when there is one, after which GET ?id=<identifier>
\* answers 404.
C3_DeleteByIdentifier ==
    [][\A c \in Clients :
          /\ AnswersNow(c, "DELETE /api/image/db")
          /\ ~StoreFailed(conn'[c].res[1])
          /\ StringId(conn[c].body)
          => LET body == conn[c].body
                 hits == DocsWithId(images, body._id)
             IN  IF hits = {}
                 THEN conn'[c].res[1].status = 404 /\ images' = images
                 ELSE /\ conn'[c].res[1].status = 200
                      /\ \E i \in hits : images' = RemoveAt(images, i)
                      /\ GetByIdResponse(images', IdText(body._id)).status = 404]_vars

-----------------------------------------------------------------------------
(* C8 *)

\* C8 as stated: a PUT whose body carries the identifier of an existing
\* document is answered 200 and replaces that document with the body,
\* leaving every other document as it was.
C8_PutReplaces ==
    [][\A c \in Clients :
          /\ AnswersNow(c, "PUT /api/image/db")
          /\ ~StoreFailed(conn'[c].res[1])
          /\ "_id" \in DOMAIN conn'[c].body
          /\ DocsWithId(images, conn'[c].body._id) # {}
          => /\ conn'[c].res[1].status = 200
             /\ \E i \in DocsWithId(images, conn'[c].body._id) :
                   images' = [images EXCEPT ![i] = conn'[c].body]
             /\ GetByIdResponse(images', IdText(conn'[c].body._id))
                   = Json(200, "", [doc |-> conn'[c].body])]_vars

-----------------------------------------------------------------------------
(* GET /api/image/db/pages *)

\* app.get("/api/image/db/pages", ...): images.countDocuments
GetPages(c, q) ==
    /\ conn[c].phase = "idle"
    /\ conn' = [conn EXCEPT ![c] =
                  Waiting(Request("GET /api/image/db/pages", <<>>, NoBody, q, <<>>),
                          "countDocuments")]
    /\ UNCHANGED <<images, tags, users, files, now, nextOid>>

\* What the callback of images.countDocuments answers (lines 219-232)
PagesResponse(coll, q, storeErr) ==
    LET counted == CountDocuments(coll, q)
    IN  IF storeErr THEN InternalError(StoreError)
        ELSE IF counted.err # "" THEN InternalError(counted.err)
        ELSE Json(200, "", [pages |-> JsonNumber(PagesValue(counted.n, q))])

GetPagesCallback(c, storeErr) ==
    /\ conn[c].phase = "countDocuments"
    /\ conn' = [conn EXCEPT ![c] =
                  Done(conn[c], PagesResponse(images, conn[c].query, storeErr))]
    /\ UNCHANGED <<images, tags, users, files, now, nextOid>>

-----------------------------------------------------------------------------
(* A client that lists and counts the documents of a collection that does  *)
(* not change meanwhile.                                                    *)

MaxListDocs == 3

IdThree == <<"str", "i3">>
IdFour == <<"str", "i4">>

\* Documents as POST /api/image/db stores them: with one tag, with two, with
\* an empty tag list, and without tags and without title.
ListDocs ==
    {WithId(ContentA, IdOne),
     WithId([title |-> <<"A", "b">>, tags |-> <<TagT, TagU>>], IdTwo),
     WithId([title |-> <<"b">>, description |-> <<"a">>, tags |-> <<>>], IdThree),
     WithId([description |-> <<"a", "b">>], IdFour)}

\* The collections of up to n of these documents, in every order.
RECURSIVE CollectionsUpTo(_)
CollectionsUpTo(n) ==
    IF n = 0 THEN {<<>>}
    ELSE LET shorter == CollectionsUpTo(n - 1)
         IN  shorter \cup {Append(coll, d) : coll \in shorter, d \in ListDocs}

DistinctIds(coll) ==
    \A i, j \in 1..Len(coll) : coll[i]._id = coll[j]._id => i = j

ListCollections == {coll \in CollectionsUpTo(MaxListDocs) : DistinctIds(coll)}

PageSizeParams == {<<>>, <<<<"0">>>>, <<<<"1">>>>, <<<<"2">>>>, <<<<"-", "1">>>>,
                   <<<<"2", "x">>>>}

PageNumParams == {<<>>, <<<<"1">>>>, <<<<"2">>>>, <<<<"0">>>>, <<<<"-", "1">>>>}

SearchParams == {<<>>, <<<<"B">>>>, <<<<".", "b">>>>, <<<<"*">>>>}

\* tags absent, tags=t, tags=t&tags=u, tags=
TagsParams ==
    {<<>>, <<[isArray |-> FALSE, v |-> <<TagT>>]>>,
     <<[isArray |-> TRUE, v |-> <<TagT, TagU>>]>>,
     <<[isArray |-> FALSE, v |-> <<<<>>>>]>>}

ListQueries ==
    {ImageQuery(<<>>, ps, pn, se, tg) :
        ps \in PageSizeParams, pn \in PageNumParams, se \in SearchParams,
        tg \in TagsParams}

PagesQueries == {q \in ListQueries : q.pageNum = <<>>}

ListClients == {"c1"}

InitList ==
    /\ images \in ListCollections
    /\ tags = <<>>
    /\ users = <<SamUser>>
    /\ files = NoFiles
    /\ now = 0
    /\ nextOid = 0
    /\ conn = [c \in Clients |-> Idle]

NextList ==
    \E c \in ListClients :
        \/ Collect(c)
        \/ \E q \in ListQueries : GetImageDb(c, q)
        \/ \E e \in StoreErrs : GetImageDbFindCallback(c, e)
        \/ \E q \in PagesQueries : GetPages(c, q)
        \/ \E e \in StoreErrs : GetPagesCallback(c, e)

SpecList == InitList /\ [][NextList]_vars

-----------------------------------------------------------------------------
(* C5, C6, C7: the list and pages endpoints *)

Range(seq) == {seq[i] : i \in 1..Len(seq)}

AnsweredList(c) ==
    /\ Answered(c)
    /\ conn[c].route = "GET /api/image/db"
    /\ ~HasId(conn[c].query)
    /\ Status(c) = 200

AnsweredPages(c) ==
    /\ Answered(c)
    /\ conn[c].route = "GET /api/image/db/pages"
    /\ Status(c) = 200

\* The search of the query matches the title or the description of d.
MatchesSearch(d, q) ==
    \/ MatchesRegexField(d, "title", StringOr(q.search, DotStar))
    \/ MatchesRegexField(d, "description", StringOr(q.search, DotStar))

TagSet(d) == IF "tags" \in DOMAIN d THEN Range(d.tags) ELSE {}

\* The documents the list endpoint is meant to select: the search matches
\* and every tag of the query is a tag of the document.
Selected(coll, q) ==
    LET Wanted(d) == MatchesSearch(d, q) /\ Range(TagsOfQuery(q)) \subseteq TagSet(d)
    IN  SelectSeq(coll, Wanted)

\* The documents that match the filter the endpoints send to the store.
Matching(coll, q) ==
    LET Test(d) == MatchesImageFilter(d, q)
    IN  SelectSeq(coll, Test)

WholeFirstPage(q) == q.pageSize = <<>> /\ q.pageNum = <<>>

\* C5 as stated: the list endpoint returns the documents that match the
\* search and carry every tag of the query; without tags in the query it
\* returns every document that matches the search, also one whose tag list
\* is empty or missing.
C5_TagFilter ==
    \A c \in Clients :
        AnsweredList(c) /\ WholeFirstPage(conn[c].query) =>
            conn[c].res[1].data.docs = Selected(images, conn[c].query)

\* The first half of C5 alone: with tags in the query, the documents
\* returned are those that match the search and carry every tag.
C5_WithTags ==
    \A c \in Clients :
        /\ AnsweredList(c)
        /\ WholeFirstPage(conn[c].query)
        /\ TagsOfQuery(conn[c].query) # <<>>
        => conn[c].res[1].data.docs = Selected(images, conn[c].query)

\* C6 as stated: the pages endpoint returns the ceiling of the number of
\* matching documents divided by the page size the list endpoint uses for
\* the same pageSize parameter.
C6_PagesOfListPageSize ==
    \A c \in Clients :
        AnsweredPages(c) =>
            conn[c].res[1].data.pages
                = JsonNumber(CeilOfQuotient(Len(Matching(images, conn[c].query)),
                                            Fin(ListPageSize(conn[c].query))))

\* The decimal text of a small number, as a client writes it in a query.
DecimalText(n) ==
    CASE n = 0 -> <<"0">> [] n = 1 -> <<"1">> [] n = 2 -> <<"2">> [] n = 3 -> <<"3">>
      [] n = 4 -> <<"4">> [] n = 5 -> <<"5">> [] n = 6 -> <<"6">> [] n = 7 -> <<"7">>
      [] n = 8 -> <<"8">> [] n = 9 -> <<"9">>

\* The documents the list endpoint answers for page k of query q.
PageDocs(coll, q, k) ==
    FindResponse(coll, [q EXCEPT !.pageNum = <<DecimalText(k)>>], FALSE).data.docs

RECURSIVE PagesThrough(_, _, _)
PagesThrough(coll, q, k) ==
    IF k = 0 THEN <<>> ELSE PagesThrough(coll, q, k - 1) \o PageDocs(coll, q, k)

\* pageSize is absent or a positive number written in digits.
PositivePageSize(q) ==
    \/ q.pageSize = <<>>
    \/ /\ \A i \in 1..Len(q.pageSize[1]) : q.pageSize[1][i] \in Digits
       /\ ToNumber(q.pageSize[1]).v >= 1

\* pageNum is absent or a positive number written in digits.
PositivePageNum(q) ==
    \/ q.pageNum = <<>>
    \/ /\ \A i \in 1..Len(q.pageNum[1]) : q.pageNum[1][i] \in Digits
       /\ ToNumber(q.pageNum[1]).v >= 1

SizeOf(q) == IF q.pageSize = <<>> THEN 15 ELSE ToNumber(q.pageSize[1]).v

NumOf(q) == IF q.pageNum = <<>> THEN 1 ELSE ToNumber(q.pageNum[1]).v

\* C7: with pageSize=N and pageNum=K (absent: 15 and 1) the list endpoint
\* answers at most N documents, those after the first N*(K-1) matching
\* documents in the order of the store; and for the number P the pages
\* endpoint answers for the same query, pages 1..P are the matching
\* documents, each once, and page P+1 is empty.
C7_Pagination ==
    \A c \in Clients :
        LET q == conn[c].query
            all == Matching(images, q)
        IN  /\ AnsweredList(c) /\ PositivePageSize(q) /\ PositivePageNum(q) =>
                /\ Len(conn[c].res[1].data.docs) <= SizeOf(q)
                /\ conn[c].res[1].data.docs
                      = SubSeq(all, SizeOf(q) * (NumOf(q) - 1) + 1,
                               Min(SizeOf(q) * NumOf(q), Len(all)))
            /\ AnsweredPages(c) /\ PositivePageSize(q) =>
                LET P == conn[c].res[1].data.pages
                IN  /\ P.json = "number"
                    /\ PagesThrough(images, q, P.v) = all
                    /\ PageDocs(images, q, P.v + 1) = <<>>

C7_Witness ==
    /\ AnsweredList("c1")
    /\ conn["c1"].query.pageSize = <<<<"1">>>>
    /\ conn["c1"].query.pageNum = <<<<"2">>>>
    /\ Len(images) = 3
    /\ Len(Matching(images, conn["c1"].query)) = 2
    /\ conn["c1"].res[1].data.docs = <<Matching(images, conn["c1"].query)[2]>>

C7_WitnessPages ==
    /\ AnsweredPages("c1")
    /\ conn["c1"].query.pageSize = <<<<"1">>>>
    /\ Len(images) = 3
    /\ Len(Matching(images, conn["c1"].query)) = 2
    /\ conn["c1"].res[1].data.pages.v = 2

-----------------------------------------------------------------------------
(* Paths and the file system *)

\* A path string is a sequence of separators "/" and names; a path of the
\* file system is the sequence of its names from the root.
DirName == <<"app">>

StorageDir == DirName \o <<"images">>

Directories == {<<>>, DirName, StorageDir, <<"etc">>}

\* path.basename(p) without sanitising: the path as given.
BasenameIdentity(p) == p

RECURSIVE StripTrailingSlashes(_)
StripTrailingSlashes(p) ==
    IF p # <<>> /\ p[Len(p)] = "/" THEN StripTrailingSlashes(SubSeq(p, 1, Len(p) - 1))
    ELSE p

\* path.basename(p): what follows the last separator, trailing separators
\* ignored.
Basename(p) ==
    LET s == StripTrailingSlashes(p)
    IN  IF s = <<>> THEN <<>> ELSE <<s[Len(s)]>>

\* The names of a path string, in order.
Segments(p) == SelectSeq(p, LAMBDA x : x # "/")

\* Normalisation: "." and "" are dropped, ".." removes the name before it.
RECURSIVE Normalize(_, _)
Normalize(done, rest) ==
    IF rest = <<>> THEN done
    ELSE IF rest[1] \in {".", ""} THEN Normalize(done, Tail(rest))
    ELSE IF rest[1] = ".."
    THEN Normalize(IF done = <<>> THEN <<>> ELSE SubSeq(done, 1, Len(done) - 1),
                   Tail(rest))
    ELSE Normalize(Append(done, rest[1]), Tail(rest))

\* path.join(__dirname, "images", p)
JoinStorage(p) == Normalize(StorageDir, Segments(p))

FileAt(fs, path) == {f \in fs : f.path = path}

\* fs.unlink(path): removes a regular file; a directory cannot be unlinked.
Unlink(fs, path) ==
    IF FileAt(fs, path) # {} THEN [err |-> "", fs |-> fs \ FileAt(fs, path)]
    ELSE IF path \in Directories THEN [err |-> "EISDIR", fs |-> fs]
    ELSE [err |-> "ENOENT", fs |-> fs]

\* image.mv(path): writes the uploaded data at path, replacing a file there.
MoveTo(fs, path, data) ==
    IF path \in Directories THEN [err |-> "EISDIR", fs |-> fs]
    ELSE [err |-> "", fs |-> (fs \ FileAt(fs, path)) \cup {[path |-> path, data |-> data]}]

hostname == "localhost"

-----------------------------------------------------------------------------
(* Stored files: POST and DELETE /api/image/storage *)

\* req.files.image: the uploaded file of the field named image, if any
ImageField(upload) == SelectSeq(upload, LAMBDA f : f.field = "image")

\* let filePath = `${hostname}/api/files/images/` + image.name
FilePath(image) == hostname \o "/api/files/images/" \o image.name

\* app.post("/api/image/storage", auth, ...): the gate, then image.mv
PostStorage(c, tok, upload) ==
    /\ conn[c].phase = "idle"
    /\ LET r == Auth(Request("POST /api/image/storage", tok, NoBody, NoQuery, upload), now)
       IN  conn' = [conn EXCEPT ![c] =
                      IF r.phase # "next" THEN r
                      ELSE IF upload = <<>>
                      THEN Done(r, Json(400, "Error: No files uploaded", NoData))
                      ELSE IF ImageField(upload) = <<>>
                      THEN Done(r, DefaultErrorPage)
                      ELSE Waiting(r, "mv")]
    /\ UNCHANGED <<images, tags, users, files, now, nextOid>>

\* The callback of image.mv (lines 459-471)
PostStorageCallback(c, fsErr) ==
    /\ conn[c].phase = "mv"
    /\ LET r == conn[c]
           image == ImageField(r.upload)[1]
           moved == MoveTo(files, JoinStorage(<<image.name>>), image.data)
       IN  IF fsErr \/ moved.err # ""
           THEN /\ conn' = [conn EXCEPT ![c] =
                     Done(r, InternalError(IF fsErr THEN "EIO" ELSE moved.err))]
                /\ UNCHANGED files
           ELSE /\ files' = moved.fs
                /\ conn' = [conn EXCEPT ![c] =
                     Done(r, Json(200, "Successfully uploaded file - ",
                                  [url |-> FilePath(image)]))]
    /\ UNCHANGED <<images, tags, users, now, nextOid>>

\* app.delete("/api/image/storage", auth, ...): the gate, then fs.unlink of
\* path.join(__dirname, "images", path.basename(req.query.file)); basename
\* throws when the parameter is missing.
DeleteStorage(c, tok, q) ==
    /\ conn[c].phase = "idle"
    /\ LET r == Auth(Request("DELETE /api/image/storage", tok, NoBody, q, <<>>), now)
       IN  conn' = [conn EXCEPT ![c] =
                      IF r.phase # "next" THEN r
                      ELSE IF q.file = <<>> THEN Done(r, DefaultErrorPage)
                      ELSE Waiting(r, "unlink")]
    /\ UNCHANGED <<images, tags, users, files, now, nextOid>>

\* The path the handler unlinks.
UnlinkTarget(q) == JoinStorage(Basename(q.file[1]))

\* The callback of fs.unlink (lines 488-509)
DeleteStorageCallback(c, fsErr) ==
    /\ conn[c].phase = "unlink"
    /\ LET r == conn[c]
           unl == Unlink(files, UnlinkTarget(r.query))
       IN  IF fsErr
           THEN /\ conn' = [conn EXCEPT ![c] = Done(r, InternalError("EIO"))]
                /\ UNCHANGED files
           ELSE /\ files' = unl.fs
                /\ conn' = [conn EXCEPT ![c] =
                     IF unl.err = "ENOENT"
                     THEN Done(r, Json(404, "Error: Image not found", NoData))
                     ELSE IF unl.err # "" THEN Done(r, InternalError(unl.err))
                     ELSE Done(r, Json(200, "Successfully deleted image - ", NoData))]
    /\ UNCHANGED <<images, tags, users, now, nextOid>>

-----------------------------------------------------------------------------
(* Tags: POST and DELETE /api/tags *)

\* app.post("/api/tags", auth, ...): the gate, then tags.insertOne
PostTags(c, tok, body) ==
    /\ conn[c].phase = "idle"
    /\ LET r == Auth(Request("POST /api/tags", tok, body, NoQuery, <<>>), now)
       IN  conn' = [conn EXCEPT ![c] =
                      IF r.phase = "next" THEN Waiting(r, "insertOne") ELSE r]
    /\ UNCHANGED <<images, tags, users, files, now, nextOid>>

\* The callback of tags.insertOne (lines 546-557)
PostTagsCallback(c, storeErr) ==
    /\ conn[c].phase = "insertOne"
    /\ conn[c].route = "POST /api/tags"
    /\ LET r == conn[c]
           ins == InsertOne(tags, r.body, nextOid)
       IN  IF storeErr \/ ins.err # ""
           THEN /\ conn' = [conn EXCEPT ![c] =
                     Done(r, InternalError(IF storeErr THEN StoreError ELSE ins.err))]
                /\ UNCHANGED <<tags, nextOid>>
           ELSE /\ Len(tags) < MaxTagDocs
                /\ ins.oid <= MaxOid
                /\ tags' = ins.coll
                /\ nextOid' = ins.oid
                /\ conn' = [conn EXCEPT ![c] =
                     Done(r, Json(200, "Successfully inserted tag ", NoData))]
    /\ UNCHANGED <<images, users, files, now>>

\* app.delete("/api/tags", auth, ...): res.status(200).end()
DeleteTags(c, tok, body) ==
    /\ conn[c].phase = "idle"
    /\ LET r == Auth(Request("DELETE /api/tags", tok, body, NoQuery, <<>>), now)
       IN  conn' = [conn EXCEPT ![c] =
                      IF r.phase # "next" THEN r
                      ELSE Done(r, [status |-> 200, json |-> FALSE, msg |-> "",
                                    data |-> NoData])]
    /\ UNCHANGED <<images, tags, users, files, now, nextOid>>

-----------------------------------------------------------------------------
(* Authentication: POST /api/auth/login and GET /api/auth/session *)

\* The value of the email field of a login body: a string, a query operator
\* object {"$ne": s}, or absent.
EmailString(s) == <<"string", s>>

EmailNotEqual(s) == <<"$ne", s>>

EmailAbsent == <<"undefined", "">>

\* Whether a user document matches the filter { email }.
MatchesEmail(d, email) ==
    CASE email[1] = "string" -> d.email = email[2]
      [] email[1] = "$ne" -> d.email # email[2]
      [] OTHER -> FALSE

\* users.findOne({ email }): the first matching user, if any
FindUser(coll, email) ==
    LET hits == SelectSeq(coll, LAMBDA d : MatchesEmail(d, email))
    IN  IF hits = <<>> THEN <<>> ELSE <<hits[1]>>

\* app.post("/api/auth/login", ...): users.findOne is called
PostAuthLogin(c, body) ==
    /\ conn[c].phase = "idle"
    /\ conn' = [conn EXCEPT ![c] =
                  Waiting(Request("POST /api/auth/login", <<>>, body, NoQuery, <<>>),
                          "findOne")]
    /\ UNCHANGED <<images, tags, users, files, now, nextOid>>

\* The callback of users.findOne (lines 101-113), which calls bcrypt.compare
PostAuthLoginFindOneCallback(c, storeErr) ==
    /\ conn[c].phase = "findOne"
    /\ conn[c].route = "POST /api/auth/login"
    /\ LET r == conn[c]
           result == FindUser(users, r.body.email)
       IN  conn' = [conn EXCEPT ![c] =
                      IF storeErr THEN Done(r, InternalError(StoreError))
                      ELSE IF result = <<>>
                      THEN Done(r, Json(404, "Error: User Not Found", NoData))
                      ELSE Waiting([r EXCEPT !.tmp = result], "compare")]
    /\ UNCHANGED <<images, tags, users, files, now, nextOid>>

\* The callback of bcrypt.compare (lines 115-165), which calls jwt.sign on a
\* match
PostAuthLoginCompareCallback(c) ==
    /\ conn[c].phase = "compare"
    /\ LET r == conn[c]
           cmp == BcryptCompare(r.body.password, r.tmp[1].passwordHash)
       IN  conn' = [conn EXCEPT ![c] =
                      IF cmp.err # "" THEN Done(r, InternalError(cmp.err))
                      ELSE IF cmp.match THEN Waiting(r, "sign")
                      ELSE Done(r, Json(401, "Error: Credentials are incorrect", NoData))]
    /\ UNCHANGED <<images, tags, users, files, now, nextOid>>

\* The payload the login signs: { user: { email, name } } of the user found
LoginPayload(result) == [user |-> Identity(result)]

\* The callback of jwt.sign in the login (lines 135-157)
PostAuthLoginSignCallback(c) ==
    /\ conn[c].phase = "sign"
    /\ conn[c].route = "POST /api/auth/login"
    /\ LET r == conn[c]
           token == JwtSign(LoginPayload(r.tmp[1]), sessionSecret, now)
       IN  conn' = [conn EXCEPT ![c] =
                      Done(r, Json(200, "Successfully logged in",
                                   [token |-> token, user |-> Identity(r.tmp[1])]))]
    /\ UNCHANGED <<images, tags, users, files, now, nextOid>>

\* app.get("/api/auth/session", auth, ...): the gate, then jwt.sign
GetAuthSession(c, tok) ==
    /\ conn[c].phase = "idle"
    /\ LET r == Auth(Request("GET /api/auth/session", tok, NoBody, NoQuery, <<>>), now)
       IN  conn' = [conn EXCEPT ![c] =
                      IF r.phase = "next" THEN Waiting(r, "sign") ELSE r]
    /\ UNCHANGED <<images, tags, users, files, now, nextOid>>

\* The callback of jwt.sign in the session check (lines 178-193)
GetAuthSessionSignCallback(c) ==
    /\ conn[c].phase = "sign"
    /\ conn[c].route = "GET /api/auth/session"
    /\ LET r == conn[c]
           token == JwtSign([user |-> r.user[1]], sessionSecret, now)
       IN  conn' = [conn EXCEPT ![c] =
                      Done(r, Json(200, "Valid Session",
                                   [token |-> token, user |-> r.user[1]]))]
    /\ UNCHANGED <<images, tags, users, files, now, nextOid>>

-----------------------------------------------------------------------------
(* Clients that upload and delete stored files, each with the user's token, *)
(* on a disk that holds files inside and outside the storage directory.     *)

File(path, data) == [path |-> path, data |-> data]

\* One stored file, a file of that name beside the storage directory, a file
\* in a directory below it, and files elsewhere.
StorageFiles ==
    {File(StorageDir \o <<"a.png">>, "x"),
     File(StorageDir \o <<"sub", "c.png">>, "x"),
     File(DirName \o <<"a.png">>, "y"),
     File(DirName \o <<"app.js">>, "src"),
     File(<<"etc", "passwd">>, "root")}

Upload(field, name, data) == <<[field |-> field, name |-> name, data |-> data]>>

Uploads ==
    {<<>>, Upload("image", "a.png", "y"), Upload("image", "b.png", "x"),
     Upload("file", "b.png", "x")}

StorageQuery(file) == [file |-> file]

\* Values of the file parameter: absent, "a.png", "b.png", "../a.png",
\* "../app.js", "/etc/passwd", "sub/c.png", "a.png/", "..", "".
FileParams ==
    {<<>>, <<<<"a.png">>>>, <<<<"b.png">>>>, <<<<"..", "/", "a.png">>>>,
     <<<<"..", "/", "app.js">>>>, <<<<"/", "etc", "/", "passwd">>>>,
     <<<<"sub", "/", "c.png">>>>, <<<<"a.png", "/">>>>, <<<<"..">>>>, <<<<>>>>}

FsErrs == BOOLEAN

InitStorage ==
    /\ images = <<>>
    /\ tags = <<>>
    /\ users = <<SamUser>>
    /\ files = StorageFiles
    /\ now = 0
    /\ nextOid = 0
    /\ conn = [c \in Clients |-> Idle]

NextStorage ==
    \E c \in Clients :
        \/ Collect(c)
        \/ \E tok \in CrudTokens, up \in Uploads : PostStorage(c, tok, up)
        \/ \E e \in FsErrs : PostStorageCallback(c, e)
        \/ \E tok \in CrudTokens, f \in FileParams : DeleteStorage(c, tok, StorageQuery(f))
        \/ \E e \in FsErrs : DeleteStorageCallback(c, e)

SpecStorage == InitStorage /\ [][NextStorage]_vars

\* The file system reported a failure of its own to the handler.
FsFailed(response) == response = InternalError("EIO")

\* A file directly inside the storage directory.
DirectlyInside(f) ==
    /\ Len(f.path) = Len(StorageDir) + 1
    /\ SubSeq(f.path, 1, Len(StorageDir)) = StorageDir

\* The stored files a value of the file parameter names: those directly
\* inside the storage directory whose name is its base name.
NamedFiles(fs, p) ==
    {f \in fs : DirectlyInside(f) /\ <<f.path[Len(f.path)]>> = Basename(p)}

\* A base name that can be the name of a file.
FileName(b) == b # <<>> /\ b[1] \notin {"", ".", ".."}

\* The step in which the file system answers c's DELETE /api/image/storage.
DeleteAnswered(c) ==
    /\ conn[c].phase = "unlink"
    /\ conn'[c].phase = "done"
    /\ ~FsFailed(conn'[c].res[1])

\* Every step removes at most files the pending deletes name, directly inside
\* the storage directory.
OnlyStoredFilesRemoved ==
    \A f \in {g \in files : FileAt(files', g.path) = {}} :
        /\ DirectlyInside(f)
        /\ \E c \in Clients : /\ conn[c].phase = "unlink"
                              /\ conn'[c].phase = "done"
                              /\ f \in NamedFiles(files, conn[c].query.file[1])

-----------------------------------------------------------------------------
(* Clients that present every kind of token to the protected endpoints and *)
(* log in, while time passes and tokens expire.                             *)

\* The instants at which something happens: the start, the last instant of
\* the life of a token issued at the start, its expiry, and the end.
Instants == {0, TokenLifeDays - 1, TokenLifeDays, MaxNow}

Tick ==
    /\ \E t \in Instants : t > now /\ now' = t
    /\ UNCHANGED <<images, tags, users, files, nextOid, conn>>

\* A header that is no token, and a token for the user's identity signed with
\* another key.
MalformedToken == [JwtSign([user |-> Identity(SamUser)], sessionSecret, 0)
                     EXCEPT !.wellFormed = FALSE]

ForgedToken == JwtSign([user |-> Identity(SamUser)], "guessed secret", 0)

\* The token headers a client can send at time t: none, the two above, and
\* the tokens the server has issued so far.
AuthTokens(t) ==
    {<<>>, <<MalformedToken>>, <<ForgedToken>>}
        \cup {<<IssuedToken(i)>> : i \in {j \in Instants : j <= t}}

TagBody == [tag |-> TagT]

\* Login bodies: the user's credentials, a wrong password, no password,
\* another email, no email, and an operator object as email.
LoginBody(email, password) == [email |-> email, password |-> password]

LoginBodies ==
    {LoginBody(EmailString("sam@example.com"), <<"hunter2">>),
     LoginBody(EmailString("sam@example.com"), <<"letmein">>),
     LoginBody(EmailString("sam@example.com"), <<>>),
     LoginBody(EmailString("eve@example.com"), <<"hunter2">>),
     LoginBody(EmailAbsent, <<"hunter2">>),
     LoginBody(EmailNotEqual(""), <<"hunter2">>)}

AuthClients == {"c1"}

InitAuth ==
    /\ images = <<>>
    /\ tags = <<>>
    /\ users = <<SamUser>>
    /\ files = NoFiles
    /\ now = 0
    /\ nextOid = 0
    /\ conn = [c \in Clients |-> Idle]

NextAuth ==
    \/ Tick
    \/ \E c \in AuthClients :
        \/ Collect(c)
        \/ \E tok \in AuthTokens(now) : PostImageDb(c, tok, WithId(ContentA, IdOne))
        \/ \E e \in StoreErrs : PostImageDbCallback(c, e)
        \/ \E tok \in AuthTokens(now) : PutImageDb(c, tok, WithId(ContentB, IdOne), FALSE)
        \/ \E e \in StoreErrs : PutImageDbCallback(c, e)
        \/ \E tok \in AuthTokens(now) : DeleteImageDb(c, tok, [_id |-> IdOne])
        \/ \E e \in StoreErrs : DeleteImageDbCallback(c, e)
        \/ \E tok \in AuthTokens(now) : PostStorage(c, tok, Upload("image", "b.png", "x"))
        \/ \E e \in FsErrs : PostStorageCallback(c, e)
        \/ \E tok \in AuthTokens(now) :
              DeleteStorage(c, tok, StorageQuery(<<<<"b.png">>>>))
        \/ \E e \in FsErrs : DeleteStorageCallback(c, e)
        \/ \E tok \in AuthTokens(now) : PostTags(c, tok, TagBody)
        \/ \E e \in StoreErrs : PostTagsCallback(c, e)
        \/ \E tok \in AuthTokens(now) : DeleteTags(c, tok, TagBody)
        \/ \E tok \in AuthTokens(now) : GetAuthSession(c, tok)
        \/ GetAuthSessionSignCallback(c)
        \/ \E body \in LoginBodies : PostAuthLogin(c, body)
        \/ \E e \in StoreErrs : PostAuthLoginFindOneCallback(c, e)
        \/ PostAuthLoginCompareCallback(c)
        \/ PostAuthLoginSignCallback(c)

SpecAuth == InitAuth /\ [][NextAuth]_vars

\* The endpoints behind the gate.
ProtectedRoutes ==
    {"POST /api/image/db", "PUT /api/image/db", "DELETE /api/image/db",
     "POST /api/image/storage", "DELETE /api/image/storage",
     "POST /api/tags", "DELETE /api/tags", "GET /api/auth/session"}

\* The token header is a token the server signed and that has not expired.
ValidToken(tok, t) ==
    /\ tok # <<>>
    /\ tok[1].wellFormed
    /\ tok[1].key = sessionSecret
    /\ t < tok[1].exp

\* The step in which a request to a protected endpoint arrives from c.
ArrivesProtected(c) ==
    /\ conn[c].phase = "idle"
    /\ conn'[c].phase # "idle"
    /\ conn'[c].route \in ProtectedRoutes

\* The two answers of the gate.
GateAnswered(r, status) ==
    /\ r.phase = "done"
    /\ r.user = <<>>
    /\ r.res[1].status = status
    /\ r.res[1].json
    /\ status = 401 => r.res[1].msg = "Error: Authentication Error"

\* The handler has the request: it waits for a call it made or has answered.
HandlerRuns(r) ==
    \/ r.phase \notin {"idle", "done"}
    \/ /\ r.phase = "done"
       /\ r.res[1].msg \notin
            {"Error: Authentication Error",
             InternalError("JsonWebTokenError: jwt malformed").msg,
             InternalError("JsonWebTokenError: invalid signature").msg,
             InternalError("TokenExpiredError: jwt expired").msg}

\* C4: a request to a protected endpoint without token is answered 401, with
\* an invalid or expired token 500, and in both cases no handler runs and the
\* images, the tags and the files are unchanged; with a valid token the
\* handler runs with the identity of the token attached. Images, tags and
\* files only change in a step of a handler that has an identity attached.
C4_AuthGate ==
    [][/\ \A c \in Clients :
            ArrivesProtected(c) =>
                LET r == conn'[c]
                IN  /\ r.tok = <<>> =>
                          GateAnswered(r, 401) /\ UNCHANGED <<images, tags, files>>
                    /\ (r.tok # <<>> /\ ~ValidToken(r.tok, now)) =>
                          GateAnswered(r, 500) /\ UNCHANGED <<images, tags, files>>
                    /\ ValidToken(r.tok, now) =>
                          r.user = <<r.tok[1].payload.user>> /\ HandlerRuns(r)
       /\ \A c \in Clients :
            (conn'[c].route \in ProtectedRoutes /\ conn'[c].phase \notin {"idle", "done"})
                => (conn'[c].user # <<>> /\ ValidToken(conn'[c].tok, conn'[c].tok[1].iat))
       /\ (images' # images \/ tags' # tags \/ files' # files) =>
            \E c \in Clients : /\ conn[c].phase \notin {"idle", "done"}
                               /\ conn[c].route \in ProtectedRoutes
                               /\ conn[c].user = <<Identity(SamUser)>>
                               /\ conn'[c].phase = "done"]_vars

\* A DELETE /api/image/db with the token of the start, by now expired, was
\* answered 500, and the document a handler inserted under the user's
\* identity is still there.
C4_Witness ==
    \E c \in Clients :
        /\ Answered(c)
        /\ conn[c].route = "DELETE /api/image/db"
        /\ conn[c].tok = <<IssuedToken(0)>>
        /\ now >= IssuedToken(0).exp
        /\ Status(c) = 500
        /\ Len(images) = 1


\* The users that have the email a login body gives.
UsersWithEmail(body) ==
    {i \in 1..Len(users) : body.email = EmailString(users[i].email)}

PasswordMatches(body, u) ==
    body.password # <<>> /\ u.passwordHash = BcryptHash(body.password[1])

\* C9: an answered login is 404 when no user has the given email, 401 when
\* the user exists and the given password does not match the stored hash, and
\* 200 only when it matches, with a token that embeds exactly that user's
\* email and name and that the gate accepts until it expires; the users
\* collection never changes.
C9_Login ==
    /\ users = <<SamUser>>
    /\ \A c \in Clients :
         (Answered(c) /\ conn[c].route = "POST /api/auth/login"
            /\ ~StoreFailed(conn[c].res[1]))
         => LET body == conn[c].body
                res == conn[c].res[1]
                holders == UsersWithEmail(body)
            IN  /\ holders = {} => res.status = 404
                /\ (holders # {} /\ body.password # <<>>
                      /\ \A i \in holders : ~PasswordMatches(body, users[i]))
                      => res.status = 401
                /\ res.status = 200 =>
                      \E i \in holders :
                          /\ PasswordMatches(body, users[i])
                          /\ res.data.token.payload = [user |-> Identity(users[i])]
                          /\ now < res.data.token.exp =>
                                LET r == Auth(Request("GET /api/auth/session",
                                                      <<res.data.token>>, NoBody,
                                                      NoQuery, <<>>), now)
                                IN  r.phase = "next" /\ r.user = <<Identity(users[i])>>


-----------------------------------------------------------------------------
(* Static serving: GET /api/files/images/<name> *)

\* The part of a string before the first of the stop characters, and the
\* part from that character on.
RECURSIVE Before(_, _)
Before(s, stops) ==
    IF s = "" \/ Head(s) \in stops THEN ""
    ELSE Head(s) \o Before(Tail(s), stops)

From(s, stops) == SubSeq(s, Len(Before(s, stops)) + 1, Len(s))

StartsWith(s, prefix) ==
    Len(s) >= Len(prefix) /\ SubSeq(s, 1, Len(prefix)) = prefix

\* The path a client requests for a URL: what follows the host, without the
\* query and the fragment.
Pathname(url) == Before(From(url, {"/"}), {"?", "#"})

\* The character of an escape sequence %XX, for the codes that occur.
HexDigits == {"0", "1", "2", "3", "4", "5", "6", "7", "8", "9",
              "A", "B", "C", "D", "E", "F", "a", "b", "c", "d", "e", "f"}

Unescaped(code) ==
    CASE code = "23" -> "#"
      [] code = "25" -> "%"
      [] code = "2E" \/ code = "2e" -> "."
      [] code = "3F" \/ code = "3f" -> "?"
      [] OTHER -> "_"

\* Whether decodeURIComponent throws on s.
RECURSIVE Undecodable(_)
Undecodable(s) ==
    IF s = "" THEN FALSE
    ELSE IF Head(s) # "%" THEN Undecodable(Tail(s))
    ELSE \/ Len(s) < 3
         \/ SubSeq(s, 2, 2) \notin HexDigits
         \/ SubSeq(s, 3, 3) \notin HexDigits
         \/ Undecodable(SubSeq(s, 4, Len(s)))

\* decodeURIComponent(s) for an s it does not throw on.
RECURSIVE Decode(_)
Decode(s) ==
    IF s = "" THEN ""
    ELSE IF Head(s) # "%" THEN Head(s) \o Decode(Tail(s))
    ELSE Unescaped(SubSeq(s, 2, 3)) \o Decode(SubSeq(s, 4, Len(s)))

\* The names of a path, separated by "/".
RECURSIVE PathNames(_)
PathNames(p) ==
    IF p = "" THEN <<>>
    ELSE IF Head(p) = "/" THEN PathNames(Tail(p))
    ELSE <<Before(p, {"/"})>> \o PathNames(From(p, {"/"}))

MountPath == "/api/files/images"

\* express.static("images"): the directory images of the working directory,
\* the directory of app.js when the server is started there.
StaticRoot == DirName \o <<"images">>

NotFoundPage == [status |-> 404, json |-> FALSE, msg |-> "", data |-> NoData]

FileContent(data) == [status |-> 200, json |-> FALSE, msg |-> "", data |-> [content |-> data]]

\* What app.use("/api/files/images", express.static("images")) and, when it
\* passes the request on, the framework answer to GET url: the file of that
\* path below the root; nothing for a path that cannot be decoded, that has a
\* name starting with a dot, or that names no file.
StaticResponse(fs, url) ==
    LET path == Pathname(url)
        rest == SubSeq(path, Len(MountPath) + 1, Len(path))
        names == PathNames(Decode(rest))
        hit == FileAt(fs, Normalize(StaticRoot, names))
    IN  IF ~StartsWith(path, MountPath \o "/") THEN NotFoundPage
        ELSE IF Undecodable(rest) THEN NotFoundPage
        ELSE IF \E i \in 1..Len(names) : Head(names[i]) = "." THEN NotFoundPage
        ELSE IF hit = {} THEN NotFoundPage
        ELSE FileContent((CHOOSE f \in hit : TRUE).data)

UrlQuery(url) == [url |-> url]

\* GET of a URL below /api/files/images: express.static looks up the file
GetFile(c, url) ==
    /\ conn[c].phase = "idle"
    /\ conn' = [conn EXCEPT ![c] =
                  Waiting(Request("GET /api/files/images", <<>>, NoBody,
                                  UrlQuery(url), <<>>), "send")]
    /\ UNCHANGED <<images, tags, users, files, now, nextOid>>

\* The file, or its absence, is answered.
GetFileCallback(c) ==
    /\ conn[c].phase = "send"
    /\ conn' = [conn EXCEPT ![c] =
                  Done(conn[c], StaticResponse(files, conn[c].query.url))]
    /\ UNCHANGED <<images, tags, users, files, now, nextOid>>

-----------------------------------------------------------------------------
(* Clients that upload, fetch and delete stored files.                      *)

\* File names a client can give an upload: plain ones, one starting with a
\* dot, and ones with characters that have a meaning in a URL.
UploadNames == {"a.png", "b.png", ".env", "a#b.png", "50%.png"}

ServeUploads ==
    {Upload("image", n, "x") : n \in UploadNames} \cup {Upload("image", "a.png", "y")}

\* The URLs a client fetches: those the uploads return, and one a client
\* escaped itself.
ServeUrls ==
    {FilePath([name |-> n]) : n \in UploadNames}
        \cup {hostname \o MountPath \o "/a%23b.png"}

NextServe ==
    \E c \in Clients :
        \/ Collect(c)
        \/ \E tok \in CrudTokens, up \in ServeUploads : PostStorage(c, tok, up)
        \/ \E e \in FsErrs : PostStorageCallback(c, e)
        \/ \E tok \in CrudTokens, n \in UploadNames :
              DeleteStorage(c, tok, StorageQuery(<<<<n>>>>))
        \/ \E e \in FsErrs : DeleteStorageCallback(c, e)
        \/ \E url \in ServeUrls : GetFile(c, url)
        \/ GetFileCallback(c)

SpecServe == InitStorage /\ [][NextServe]_vars

\* The step in which c's upload, or c's delete, is answered 200.
UploadSucceeds(c) ==
    /\ conn[c].phase = "mv"
    /\ conn'[c].phase = "done"
    /\ conn'[c].res[1].status = 200

DeleteSucceeds(c) ==
    /\ conn[c].phase = "unlink"
    /\ conn'[c].phase = "done"
    /\ conn'[c].res[1].status = 200

UploadedName(r) == ImageField(r.upload)[1].name

\* C11: when an upload is answered 200, a GET of the returned URL yields the
\* uploaded content; when a delete of a file name is answered 200, a GET of
\* that file's URL yields NotFound; and what a GET of a file's URL yields
\* changes only when an upload or a delete of that very name is answered 200.
C11_UploadRetrieve ==
    [][/\ \A c \in Clients :
            UploadSucceeds(c) =>
                StaticResponse(files', conn'[c].res[1].data.url)
                    = FileContent(ImageField(conn[c].upload)[1].data)
       /\ \A c \in Clients :
            DeleteSucceeds(c) =>
                StaticResponse(files', FilePath([name |-> conn[c].query.file[1][1]]))
                    = NotFoundPage
       /\ \A n \in UploadNames :
            StaticResponse(files', FilePath([name |-> n]))
                    # StaticResponse(files, FilePath([name |-> n]))
                => \E c \in Clients :
                      \/ UploadSucceeds(c) /\ UploadedName(conn[c]) = n
                      \/ DeleteSucceeds(c) /\ conn[c].query.file[1] = <<n>>
       /\ \A c \in Clients :
            (conn[c].phase = "send" /\ conn'[c].phase = "done")
                => conn'[c].res[1] = StaticResponse(files, conn[c].query.url)]_vars


\* C12: every answer with a status of 400, 401, 404, 409 or 500 has a JSON
\* body.
C12_FailuresAreJson ==
    \A c \in Clients :
        (Answered(c) /\ Status(c) \in {400, 401, 404, 409, 500})
            => conn[c].res[1].json

-----------------------------------------------------------------------------
(* Clients that insert and delete one image document and upload and delete *)
(* the file it refers to, and another file.                                 *)

LifecycleNames == {"a.png", "b.png"}

NextLifecycle ==
    \E c \in Clients :
        \/ Collect(c)
        \/ \E tok \in CrudTokens : PostImageDb(c, tok, WithId(ContentA, IdOne))
        \/ \E e \in StoreErrs : PostImageDbCallback(c, e)
        \/ \E tok \in CrudTokens : DeleteImageDb(c, tok, [_id |-> IdOne])
        \/ \E e \in StoreErrs : DeleteImageDbCallback(c, e)
        \/ \E tok \in CrudTokens, n \in LifecycleNames :
              PostStorage(c, tok, Upload("image", n, "x"))
        \/ \E e \in FsErrs : PostStorageCallback(c, e)
        \/ \E tok \in CrudTokens, n \in LifecycleNames :
              DeleteStorage(c, tok, StorageQuery(<<<<n>>>>))
        \/ \E e \in FsErrs : DeleteStorageCallback(c, e)

SpecLifecycle == Init /\ [][NextLifecycle]_vars

\* The stored file an image document refers to exists; an image document
\* refers to the stored file.
FileOfDocExists(d) ==
    \E f \in files : /\ DirectlyInside(f)
                     /\ d.filePath = FilePath([name |-> f.path[Len(f.path)]])

ReferencedFile(f) ==
    \E i \in 1..Len(images) :
        /\ "filePath" \in DOMAIN images[i]
        /\ images[i].filePath = FilePath([name |-> f.path[Len(f.path)]])

\* The step belongs to a request of c on one of the routes.
StepOf(c, routes) ==
    /\ conn'[c] # conn[c]
    /\ conn[c].route \in routes \/ conn'[c].route \in routes

\* C13: no step of a DELETE /api/image/db changes the stored files, and no
\* step of a POST or DELETE /api/image/storage changes the images
\* collection; the files change only in steps of the storage routes and the
\* images only in steps of the image routes.
C13_IndependentLifecycles ==
    [][/\ \A c \in Clients :
            StepOf(c, {"DELETE /api/image/db"}) => files' = files
       /\ \A c \in Clients :
            StepOf(c, {"POST /api/image/storage", "DELETE /api/image/storage"})
                => images' = images
       /\ files' # files =>
            \E c \in Clients :
                StepOf(c, {"POST /api/image/storage", "DELETE /api/image/storage"})
       /\ images' # images =>
            \E c \in Clients :
                StepOf(c, {"POST /api/image/db", "DELETE /api/image/db"})]_vars

\* The document's file a.png was uploaded and then deleted with a 200 while
\* the document stays, and the stored file b.png is referred to by no
\* document.
C13_Witness ==
    /\ Len(images) = 1
    /\ "filePath" \in DOMAIN images[1]
    /\ ~FileOfDocExists(images[1])
    /\ \E f \in files : DirectlyInside(f) /\ ~ReferencedFile(f)
    /\ \E c \in Clients :
          /\ Answered(c)
          /\ conn[c].route = "DELETE /api/image/storage"
          /\ conn[c].query.file = <<<<"a.png">>>>
          /\ Status(c) = 200

====
